---- MODULE Spec2Model ----
(***************************************************************************)
(* Model of the priority task queue of the SochDB Node.js SDK              *)
(* (PriorityQueue and its key codec, src/src/query.test.ts:547-903).       *)
(*                                                                         *)
(* Byte strings (Buffer) and JavaScript strings are sequences of byte /    *)
(* character codes.  The store `db` is the key-value collaborator the      *)
(* queue is constructed with: a map from key bytes to stored values.       *)
(* Every `await` of an asynchronous store operation is a point where other *)
(* calls may run, so a call is a sequence of steps, one per store          *)
(* operation; the synchronous code before a store operation belongs to the *)
(* step of that operation.                                                 *)
(***************************************************************************)
EXTENDS Integers, Sequences, FiniteSets, TLC

VARIABLES
    db,          \* the store: key bytes -> stored value
    seqCounter,  \* PriorityQueue.sequenceCounter, one per process (static field)
    now,         \* Date.now()
    call,        \* per caller: the call in flight and its position
    index,       \* ghost: the QueueKey records enqueue has built and stored
    hist,        \* ghost: the calls that have returned, in order of return
    logging,     \* ghost: whether hist keeps every return, or the deliveries and the latest
    ck,          \* codec harness: the pair of keys under test
    cenc,        \* codec harness: their encodings
    cdec,        \* codec harness: the decodings of the encodings
    cpc,         \* codec harness: position
    copt,        \* configuration harness: the name and options a queue is created with
    cconf,       \* configuration harness: the configuration of the created queue
    cb,          \* the ContextQueryBuilder: its fields
    cres,        \* the ContextResult of the latest execute()
    sc,          \* the SemanticCache: its entries in the store, hits, misses
    scalls,      \* ghost: get() calls since construction or the last successful clear()
    sret         \* the latest return of a SemanticCache call

vars == <<db, seqCounter, now, call, index, hist, logging, ck, cenc, cdec, cpc, copt, cconf,
          cb, cres, sc, scalls, sret>>
queueVars == <<db, seqCounter, now, call, index, hist, logging>>
codecVars == <<ck, cenc, cdec, cpc>>
configVars == <<copt, cconf>>
builderVars == <<cb, cres>>
cacheVars == <<sc, scalls, sret>>

----------------------------------------------------------------------------
(* Bounds of the model. *)

MaxTime == 1        \* Date.now() ranges over 0..MaxTime
MaxTasks == 2       \* tasks enqueued per behaviour
MaxEvents == 3      \* calls (returned or in flight) per behaviour that keeps every return

Callers == {1, 2}   \* concurrent callers (workers, producers), one per process
Procs == {1, 2}     \* cooperating processes, each with its own static counter
ProcOf(c) == c      \* the process caller c runs in
Priorities == {-1, 1}

----------------------------------------------------------------------------
(* Character codes and literal strings of the source. *)

Slash == 47                                   \* '/'
Dash == 45                                    \* '-'
Digit0 == 48                                  \* '0'
ReplacementChar == 65533                      \* U+FFFD
StrQueue == <<113, 117, 101, 117, 101>>       \* 'queue'
StrQueueSlash == StrQueue \o <<Slash>>        \* 'queue/'
StrStatsSlash == <<95, 113, 117, 101, 117, 101, 95, 115, 116, 97, 116, 115, 47>>
                                              \* '_queue_stats/'
StatPending == <<112, 101, 110, 100, 105, 110, 103>>
StatClaimed == <<99, 108, 97, 105, 109, 101, 100>>
StatCompleted == <<99, 111, 109, 112, 108, 101, 116, 101, 100>>
StatDeadLettered == <<100, 101, 97, 100, 76, 101, 116, 116, 101, 114, 101, 100>>
StatTotalEnqueued == <<116, 111, 116, 97, 108, 69, 110, 113, 117, 101, 117, 101, 100>>
StatTotalDequeued == <<116, 111, 116, 97, 108, 68, 101, 113, 117, 101, 117, 101, 100>>

QueueA == <<97>>                              \* queue name 'a'
QueueB == <<98>>                              \* queue name 'b'
QueueAB == <<97, Slash, 98>>                  \* queue name 'a/b'
QueueNames == {QueueA, QueueB}
Queues == {QueueA}                           \* the queues the callers work on

NULL == [kind |-> "null"]

\* enum TaskState
PENDING == "pending"
CLAIMED == "claimed"
COMPLETED == "completed"
DEAD_LETTERED == "dead_lettered"

----------------------------------------------------------------------------
(* Byte strings. *)

ByteBase == 256
HighBit == 128
U64Bytes == 8

\* Unsigned lexicographic comparison of two byte strings (the order of the
\* store's keys, Buffer.compare).
RECURSIVE BytesLess(_, _)
BytesLess(a, b) ==
    IF b = <<>> THEN FALSE
    ELSE IF a = <<>> THEN TRUE
    ELSE IF Head(a) # Head(b) THEN Head(a) < Head(b)
    ELSE BytesLess(Tail(a), Tail(b))

IsPrefix(p, s) == Len(p) <= Len(s) /\ SubSeq(s, 1, Len(p)) = p

\* The n low-order base-256 digits of v, most significant first.  For a
\* negative v these are the digits of its two's complement (\div floors).
RECURSIVE BigEndian(_, _)
BigEndian(v, n) ==
    IF n = 0 THEN <<>> ELSE Append(BigEndian(v \div ByteBase, n - 1), v % ByteBase)

\* The unsigned value of a big-endian byte string.
RECURSIVE FromBigEndian(_)
FromBigEndian(buf) ==
    IF buf = <<>> THEN 0
    ELSE FromBigEndian(SubSeq(buf, 1, Len(buf) - 1)) * ByteBase + buf[Len(buf)]

\* Number.prototype.toString() of a non-negative integer, as character codes.
RECURSIVE DecStr(_)
DecStr(n) ==
    IF n < 10 THEN <<Digit0 + n>> ELSE Append(DecStr(n \div 10), Digit0 + (n % 10))

\* parseInt of a string of decimal digits.
RECURSIVE ParseInt(_)
ParseInt(s) ==
    IF s = <<>> THEN 0
    ELSE ParseInt(SubSeq(s, 1, Len(s) - 1)) * 10 + (s[Len(s)] - Digit0)

----------------------------------------------------------------------------
(* Queue key encoding. *)

encodeU64BE(value) == BigEndian(value, U64Bytes)

decodeU64BE(buf) == FromBigEndian(SubSeq(buf, 1, U64Bytes))

\* encodeI64BE without the offset: the two's-complement bytes of value.
encodeI64BENoOffset(value) == BigEndian(value, U64Bytes)

\* BigInt(value) + (1n << 63n) written as an unsigned 64-bit integer: adding
\* 2^63 to a 64-bit two's-complement value inverts its top bit and leaves the
\* other 63 bits as they are.
encodeI64BE(value) ==
    LET raw == BigEndian(value, U64Bytes)
    IN  <<(raw[1] + HighBit) % ByteBase>> \o Tail(raw)

\* readBigUInt64BE minus (1n << 63n): with the top bit set the result is the
\* value of the other 63 bits; otherwise it is that value minus 2^63, which is
\* -1 minus the value of the complemented 63 bits.
decodeI64BE(buf) ==
    IF buf[1] >= HighBit
    THEN FromBigEndian(<<buf[1] - HighBit>> \o SubSeq(buf, 2, U64Bytes))
    ELSE -1 - FromBigEndian(<<HighBit - 1 - buf[1]>>
                \o [i \in 1..(U64Bytes - 1) |-> ByteBase - 1 - buf[i + 1]])

\* Buffer.from(string): the UTF-8 bytes of a string given as UTF-16 code
\* units.  A surrogate code unit that is not part of a pair is written as
\* U+FFFD (EF BF BD); the strings enumerated here hold no surrogate pair.
RECURSIVE BufferFrom(_)
BufferFrom(str) ==
    IF str = <<>> THEN <<>>
    ELSE LET c == Head(str)
         IN  (IF c < HighBit THEN <<c>>
              ELSE IF c < 2048 THEN <<192 + (c \div 64), HighBit + (c % 64)>>
              ELSE IF c >= 55296 /\ c <= 57343 THEN <<239, 191, 189>>
              ELSE <<224 + (c \div 4096), HighBit + ((c \div 64) % 64), HighBit + (c % 64)>>)
             \o BufferFrom(Tail(str))

\* encodeQueueKey with the taskId part left out.
encodeQueueKeyNoTaskId(key) ==
    StrQueueSlash \o BufferFrom(key.queueId) \o <<Slash>>
        \o encodeI64BE(key.priority) \o <<Slash>>
        \o encodeU64BE(key.readyTs) \o <<Slash>>
        \o encodeU64BE(key.sequence) \o <<Slash>>

encodeQueueKey(key) ==
    StrQueueSlash \o BufferFrom(key.queueId) \o <<Slash>>
        \o encodeI64BE(key.priority) \o <<Slash>>
        \o encodeU64BE(key.readyTs) \o <<Slash>>
        \o encodeU64BE(key.sequence) \o <<Slash>>
        \o BufferFrom(key.taskId)

\* The second bytes a three-byte sequence with lead byte `lead` may have: no
\* overlong form and no surrogate.
ThreeByteSecond(lead, b) ==
    IF lead = 224 THEN b >= 160 /\ b <= 191
    ELSE IF lead = 237 THEN b >= HighBit /\ b <= 159
    ELSE b >= HighBit /\ b <= 191

\* Buffer.prototype.toString(): UTF-8 decoding.  One-, two- and three-byte
\* sequences are decoded; a byte that starts no complete sequence becomes
\* U+FFFD and decoding resumes at the next byte.  (A '/' is a one-byte
\* sequence and is never part of a longer one.)
RECURSIVE Utf8ToString(_)
Utf8ToString(data) ==
    IF data = <<>> THEN <<>>
    ELSE IF Head(data) < HighBit THEN <<Head(data)>> \o Utf8ToString(Tail(data))
    ELSE IF /\ Head(data) >= 194 /\ Head(data) <= 223 /\ Len(data) >= 2
            /\ data[2] >= HighBit /\ data[2] <= 191
         THEN <<(Head(data) - 192) * 64 + (data[2] - HighBit)>>
                  \o Utf8ToString(SubSeq(data, 3, Len(data)))
    ELSE IF /\ Head(data) >= 224 /\ Head(data) <= 239 /\ Len(data) >= 3
            /\ ThreeByteSecond(Head(data), data[2])
            /\ data[3] >= HighBit /\ data[3] <= 191
         THEN <<(Head(data) - 224) * 4096 + (data[2] - HighBit) * 64 + (data[3] - HighBit)>>
                  \o Utf8ToString(SubSeq(data, 4, Len(data)))
    ELSE <<ReplacementChar>> \o Utf8ToString(Tail(data))

\* String.prototype.split(sep) for a one-character separator.
RECURSIVE Split(_, _)
Split(str, sep) ==
    IF \A i \in 1..Len(str) : str[i] # sep THEN <<str>>
    ELSE LET i == CHOOSE j \in 1..Len(str) :
                      str[j] = sep /\ \A m \in 1..(j - 1) : str[m] # sep
         IN  <<SubSeq(str, 1, i - 1)>> \o Split(SubSeq(str, i + 1, Len(str)), sep)

DecodeError == [kind |-> "error", class |-> "SochDBError",
                message |-> "Invalid queue key format"]

\* decodeQueueKey that takes the task id from the sixth part.
decodeQueueKeySixth(data) ==
    LET str == Utf8ToString(data)
        parts == Split(str, Slash)
    IN  IF Len(parts) < 6 \/ parts[1] # StrQueue
        THEN DecodeError
        ELSE [kind |-> "key",
              queueId |-> parts[2],
              priority |-> 0,
              readyTs |-> 0,
              sequence |-> 0,
              taskId |-> parts[6]]

decodeQueueKey(data) ==
    LET str == Utf8ToString(data)
        parts == Split(str, Slash)
    IN  IF Len(parts) < 6 \/ parts[1] # StrQueue
        THEN DecodeError
        ELSE [kind |-> "key",
              queueId |-> parts[2],
              priority |-> 0,
              readyTs |-> 0,
              sequence |-> 0,
              taskId |-> parts[Len(parts)]]

----------------------------------------------------------------------------
(* Queue configuration. *)

DefaultVisibilityTimeout == 30000
DefaultMaxRetries == 3

\* OrDefault without the default: an absent option stays undefined (0 here).
OrDefaultNone(config, field, dflt) ==
    IF field \in DOMAIN config THEN config[field] ELSE 0

\* JavaScript `config[field] || dflt` for an optional numeric option: an
\* absent (undefined) or zero option yields the default.
OrDefault(config, field, dflt) ==
    IF field \in DOMAIN config /\ config[field] # 0 THEN config[field] ELSE dflt

\* constructor(db, config): the configuration the instance works with.
PriorityQueue(config) ==
    [name |-> config.name,
     visibilityTimeout |-> OrDefault(config, "visibilityTimeout", DefaultVisibilityTimeout),
     maxRetries |-> OrDefault(config, "maxRetries", DefaultMaxRetries)]

\* fromDatabase(db, name, config) / fromClient(client, name, config)
fromDatabase(name, config) ==
    PriorityQueue([f \in DOMAIN config \cup {"name"} |->
                      IF f \in DOMAIN config THEN config[f] ELSE name])

\* The queues of the model: 'a' is created with explicit options, 'b' with
\* none.
SuppliedOptions(name) ==
    IF name = QueueA THEN [visibilityTimeout |-> 1, maxRetries |-> 2]
    ELSE [deadLetterQueue |-> <<>>]

Config(name) == fromDatabase(name, SuppliedOptions(name))

----------------------------------------------------------------------------
(* The store. *)

Put(d, key, value) ==
    [k \in DOMAIN d \cup {key} |-> IF k = key THEN value ELSE d[k]]

Get(d, key) == IF key \in DOMAIN d THEN d[key] ELSE NULL

BytesValue(bytes) == [kind |-> "bytes", bytes |-> bytes]

\* `queue/${name}/`
ScanPrefix(name) == StrQueueSlash \o name \o <<Slash>>

\* `_queue_stats/${name}/${stat}`
StatKey(name, stat) == StrStatsSlash \o name \o <<Slash>> \o stat

\* getStat(name)
getStat(d, name, stat) ==
    LET value == Get(d, StatKey(name, stat))
    IN  IF value # NULL THEN ParseInt(value.bytes) ELSE 0

Max(a, b) == IF a >= b THEN a ELSE b

\* The value incrementStat / decrementStat writes after reading `current`.
StatWrite(current, delta) ==
    IF delta > 0 THEN DecStr(current + 1) ELSE DecStr(Max(0, current - 1))

Inc(stat) == [stat |-> stat, delta |-> 1]
Dec(stat) == [stat |-> stat, delta |-> -1]

\* stats(): the counters read from the store `d`.
stats(d, name) ==
    [pending |-> getStat(d, name, StatPending),
     claimed |-> getStat(d, name, StatClaimed),
     completed |-> getStat(d, name, StatCompleted),
     deadLettered |-> getStat(d, name, StatDeadLettered),
     totalEnqueued |-> getStat(d, name, StatTotalEnqueued),
     totalDequeued |-> getStat(d, name, StatTotalDequeued)]

----------------------------------------------------------------------------
(* Tasks. *)

\* Math.random().toString(36).substr(2, 9), shortened to one character and
\* taken to differ from call to call: the n-th call yields the n-th letter.
randomSuffix(n) == <<97 + n>>

\* `${Date.now()}-${random}`
generateTaskId(t, random) == DecStr(t) \o <<Dash>> \o random

Payloads == {<<120>>}

\* A task id no enqueue has returned.
UnknownTaskId == <<57, Dash, 122>>

\* The task object enqueue builds, with a wrong initial state.
NewTaskClaimed(taskId, priority, payload, t) ==
    [kind |-> "task", taskId |-> taskId, priority |-> priority, payload |-> payload,
     state |-> CLAIMED, enqueuedAt |-> t, retries |-> 0]

\* The task object enqueue builds, with the retry count started past the budget.
NewTaskRetriesSpent(taskId, priority, payload, t) ==
    [kind |-> "task", taskId |-> taskId, priority |-> priority, payload |-> payload,
     state |-> PENDING, enqueuedAt |-> t, retries |-> DefaultMaxRetries + 1]

\* The task object enqueue builds (claimedAt, claimedBy, completedAt and
\* metadata are undefined and JSON.stringify leaves them out).
NewTask(taskId, priority, payload, t) ==
    [kind |-> "task", taskId |-> taskId, priority |-> priority, payload |-> payload,
     state |-> PENDING, enqueuedAt |-> t, retries |-> 0]

WithField(r, f, v) == [x \in DOMAIN r \cup {f} |-> IF x = f THEN v ELSE r[x]]

WithoutField(r, f) == [x \in DOMAIN r \ {f} |-> r[x]]

\* The stored entries of queue `name`: the keys under its scan prefix.
QueueKeys(d, name) == {k \in DOMAIN d : IsPrefix(ScanPrefix(name), k)}

\* The smallest key of a non-empty set of keys, in byte order.
MinKey(keys) == CHOOSE k \in keys : \A o \in keys : o = k \/ BytesLess(k, o)

\* dequeue as a scan that returns the first entry and claims nothing.
dequeuePeek(d, config, workerId, t) ==
    IF QueueKeys(d, config.name) = {} THEN NULL
    ELSE d[MinKey(QueueKeys(d, config.name))]

\* dequeue(workerId): `now` and `prefix` are computed and not used; the range
\* scan is not implemented and the call returns null.
dequeue(d, config, workerId, t) == NULL

\* getTask as a lookup that finds the stored task of the id.
getTaskStored(d, config, taskId) ==
    LET entries == {k \in QueueKeys(d, config.name) : d[k].taskId = taskId}
    IN  IF entries = {} THEN NULL ELSE d[CHOOSE k \in entries : TRUE]

\* getTask(taskId): the lookup is not implemented and yields null.
getTask(d, config, taskId) == NULL

\* updateTask(task): not implemented, the store is left as it is.
updateTask(d, config, task) == d

\* `this.config.maxRetries || 3`: the budget nack compares the retries with.
nackBudget(config) == OrDefault(config, "maxRetries", DefaultMaxRetries)

TaskNotFound(taskId) ==
    [kind |-> "error", class |-> "SochDBError", message |-> "Task not found", taskId |-> taskId]

TaskNotClaimed(taskId) ==
    [kind |-> "error", class |-> "SochDBError", message |-> "Task not in claimed state",
     taskId |-> taskId]

Void == [kind |-> "void"]

----------------------------------------------------------------------------
(* Calls. *)

Idle == [op |-> "idle", proc |-> 0, q |-> <<>>, arg |-> <<>>, todo |-> <<>>,
         step |-> "", cur |-> 0, ret |-> Void]

InFlight == {c \in Callers : call[c].op # "idle"}

CanStart(c) ==
    /\ call[c] = Idle
    /\ logging => Len(hist) + Cardinality(InFlight) < MaxEvents

Event(op, name, c, arg, ret) == [op |-> op, q |-> name, who |-> c, arg |-> arg, ret |-> ret]

\* A return that hands a task to a worker, or hands one back to the queue.
IsDelivery(event) ==
    \/ event.op = "dequeue" /\ event.ret # NULL
    \/ event.op = "nack" /\ event.ret = Void

\* hist after the return `event`: every return is kept when logging, and
\* otherwise the deliveries so far and the latest return.
Record(event) ==
    IF logging THEN Append(hist, event) ELSE Append(SelectSeq(hist, IsDelivery), event)

TaskIds == {k.taskId : k \in index}

----------------------------------------------------------------------------
(* Initial state. *)

NoKey == [queueId |-> <<>>, priority |-> 0, readyTs |-> 0, sequence |-> 0, taskId |-> <<>>]

CodecIdle ==
    /\ ck = <<NoKey, NoKey>>
    /\ cenc = <<>>
    /\ cdec = <<>>
    /\ cpc = "off"

ConfigIdle ==
    /\ copt = [name |-> <<>>, options |-> <<>>]
    /\ cconf = NULL

BuilderIdle ==
    /\ cb = NULL
    /\ cres = NULL

CacheIdle ==
    /\ sc = NULL
    /\ scalls = 0
    /\ sret = NULL

QueueInit ==
    /\ db = <<>>
    /\ seqCounter = [p \in Procs |-> 0]
    /\ now = 0
    /\ call = [c \in Callers |-> Idle]
    /\ index = {}
    /\ hist = <<>>

\* The deliveries and the latest return are kept.
Init == QueueInit /\ logging = FALSE /\ CodecIdle /\ ConfigIdle /\ BuilderIdle /\ CacheIdle

\* Every return is kept, for at most MaxEvents calls.
InitLog == QueueInit /\ logging = TRUE /\ CodecIdle /\ ConfigIdle /\ BuilderIdle /\ CacheIdle

----------------------------------------------------------------------------
(* Operations. *)

\* Date.now() advances.
Tick ==
    /\ now < MaxTime
    /\ now' = now + 1
    /\ UNCHANGED <<db, seqCounter, call, index, hist, logging, codecVars, configVars, builderVars, cacheVars>>

\* enqueue(priority, payload) up to and including `await this.db.put(keyBuf,
\* valueBuf)`; the two incrementStat calls follow as StatGet / StatPut steps.
\* The random part of the task id is taken to be unused so far.
EnqueueCall(c, name, priority, payload) ==
    LET p == ProcOf(c)
        taskId == generateTaskId(now, randomSuffix(Cardinality(index)))
        key == [queueId |-> Config(name).name,
                priority |-> priority,
                readyTs |-> now,
                sequence |-> seqCounter[p],
                taskId |-> taskId]
        task == NewTask(taskId, priority, payload, now)
        keyBuf == encodeQueueKey(key)
    IN  /\ CanStart(c)
        /\ Cardinality(index) < MaxTasks
        /\ seqCounter' = [seqCounter EXCEPT ![p] = @ + 1]
        /\ db' = Put(db, keyBuf, task)
        /\ index' = index \cup {key}
        /\ call' = [call EXCEPT ![c] =
                        [op |-> "enqueue", proc |-> p, q |-> name, arg |-> taskId,
                         todo |-> <<Inc(StatTotalEnqueued), Inc(StatPending)>>,
                         step |-> "get", cur |-> 0,
                         ret |-> [kind |-> "id", taskId |-> taskId]]]
        /\ UNCHANGED <<now, hist, logging, codecVars, configVars, builderVars, cacheVars>>

\* `const current = await this.getStat(name)` of incrementStat / decrementStat.
StatGet(c) ==
    /\ call[c].op # "idle"
    /\ call[c].step = "get"
    /\ call' = [call EXCEPT ![c].cur = getStat(db, call[c].q, Head(call[c].todo).stat),
                            ![c].step = "put"]
    /\ UNCHANGED <<db, seqCounter, now, index, hist, logging, codecVars, configVars, builderVars, cacheVars>>

\* `await this.db.put(key, ...)` of incrementStat / decrementStat; after the
\* last counter update the call returns.
StatPut(c) ==
    /\ call[c].op # "idle"
    /\ call[c].step = "put"
    /\ db' = Put(db, StatKey(call[c].q, Head(call[c].todo).stat),
                 BytesValue(StatWrite(call[c].cur, Head(call[c].todo).delta)))
    /\ IF Tail(call[c].todo) = <<>>
       THEN /\ hist' = Record(Event(call[c].op, call[c].q, c, call[c].arg, call[c].ret))
            /\ call' = [call EXCEPT ![c] = Idle]
       ELSE /\ hist' = hist
            /\ call' = [call EXCEPT ![c].todo = Tail(@), ![c].step = "get"]
    /\ UNCHANGED <<seqCounter, now, index, logging, codecVars, configVars, builderVars, cacheVars>>

\* dequeue(workerId): no store operation, returns at once.
Dequeue(c, name) ==
    /\ CanStart(c)
    /\ hist' = Record(Event("dequeue", name, c, <<>>, dequeue(db, Config(name), c, now)))
    /\ UNCHANGED <<db, seqCounter, now, call, index, logging, codecVars, configVars, builderVars, cacheVars>>

\* ack(taskId)
Ack(c, name, taskId) ==
    LET task == getTask(db, Config(name), taskId)
        start == [op |-> "ack", proc |-> ProcOf(c), q |-> name, arg |-> taskId,
                  todo |-> <<>>, step |-> "", cur |-> 0, ret |-> Void]
    IN  /\ CanStart(c)
        /\ IF task = NULL
           THEN /\ hist' = Record(Event("ack", name, c, taskId, TaskNotFound(taskId)))
                /\ UNCHANGED <<db, call>>
           ELSE IF task.state # CLAIMED
           THEN /\ hist' = Record(Event("ack", name, c, taskId, TaskNotClaimed(taskId)))
                /\ UNCHANGED <<db, call>>
           ELSE /\ db' = updateTask(db, Config(name),
                             WithField([task EXCEPT !.state = COMPLETED], "completedAt", now))
                /\ call' = [call EXCEPT ![c] =
                               [start EXCEPT !.todo = <<Dec(StatClaimed), Inc(StatCompleted)>>,
                                             !.step = "get"]]
                /\ hist' = hist
        /\ UNCHANGED <<seqCounter, now, index, logging, codecVars, configVars, builderVars, cacheVars>>

\* nack(taskId)
Nack(c, name, taskId) ==
    LET task == getTask(db, Config(name), taskId)
        start == [op |-> "nack", proc |-> ProcOf(c), q |-> name, arg |-> taskId,
                  todo |-> <<>>, step |-> "", cur |-> 0, ret |-> Void]
    IN  /\ CanStart(c)
        /\ IF task = NULL
           THEN /\ hist' = Record(Event("nack", name, c, taskId, TaskNotFound(taskId)))
                /\ UNCHANGED <<db, call>>
           ELSE IF task.retries + 1 >= nackBudget(Config(name))
           THEN /\ db' = updateTask(db, Config(name),
                             [task EXCEPT !.retries = @ + 1, !.state = DEAD_LETTERED])
                /\ call' = [call EXCEPT ![c] =
                               [start EXCEPT !.todo = <<Dec(StatClaimed), Inc(StatDeadLettered)>>,
                                             !.step = "get"]]
                /\ hist' = hist
           ELSE /\ db' = updateTask(db, Config(name),
                             WithoutField(WithoutField(
                                 [task EXCEPT !.retries = @ + 1, !.state = PENDING],
                                 "claimedAt"), "claimedBy"))
                /\ call' = [call EXCEPT ![c] =
                               [start EXCEPT !.todo = <<Dec(StatClaimed), Inc(StatPending)>>,
                                             !.step = "get"]]
                /\ hist' = hist
        /\ UNCHANGED <<seqCounter, now, index, logging, codecVars, configVars, builderVars, cacheVars>>

\* purge() as a count of every stored entry.
purgeCountsAll == Cardinality(DOMAIN db)

\* purge(): nothing is removed, the count returned is 0.
purge == 0

\* purge()
Purge(c, name) ==
    /\ CanStart(c)
    /\ hist' = Record(Event("purge", name, c, <<>>, [kind |-> "count", count |-> purge]))
    /\ UNCHANGED <<db, seqCounter, now, call, index, logging, codecVars, configVars, builderVars, cacheVars>>

Next ==
    \/ Tick
    \/ \E c \in Callers, name \in Queues, priority \in Priorities, payload \in Payloads :
           EnqueueCall(c, name, priority, payload)
    \/ \E c \in Callers : StatGet(c)
    \/ \E c \in Callers : StatPut(c)
    \/ \E c \in Callers, name \in Queues : Dequeue(c, name)
    \/ \E c \in Callers, name \in Queues, taskId \in TaskIds \cup {UnknownTaskId} :
           Ack(c, name, taskId)
    \/ \E c \in Callers, name \in Queues, taskId \in TaskIds \cup {UnknownTaskId} :
           Nack(c, name, taskId)

Spec == Init /\ [][Next]_vars

SpecLog == InitLog /\ [][Next]_vars

\* One client that runs every operation of the queue, purge included, one
\* call at a time; every return is kept.
Client == CHOOSE c \in Callers : \A o \in Callers : c <= o

NextPurge ==
    \/ Tick
    \/ \E name \in Queues, priority \in Priorities, payload \in Payloads :
           EnqueueCall(Client, name, priority, payload)
    \/ StatGet(Client)
    \/ StatPut(Client)
    \/ \E name \in Queues : Dequeue(Client, name)
    \/ \E name \in Queues, taskId \in TaskIds \cup {UnknownTaskId} : Ack(Client, name, taskId)
    \/ \E name \in Queues, taskId \in TaskIds \cup {UnknownTaskId} : Nack(Client, name, taskId)
    \/ \E name \in Queues : Purge(Client, name)

SpecPurge == InitLog /\ [][NextPurge]_vars

\* Two queues on one store, each worked on by its own caller.
QueueOf(c) == IF c = Client THEN QueueA ELSE QueueAB

SharedStoreQueues == {QueueOf(c) : c \in Callers}

NextQueues ==
    \/ Tick
    \/ \E c \in Callers, priority \in Priorities, payload \in Payloads :
           EnqueueCall(c, QueueOf(c), priority, payload)
    \/ \E c \in Callers : StatGet(c)
    \/ \E c \in Callers : StatPut(c)
    \/ \E c \in Callers : Dequeue(c, QueueOf(c))
    \/ \E c \in Callers, taskId \in TaskIds \cup {UnknownTaskId} : Ack(c, QueueOf(c), taskId)
    \/ \E c \in Callers, taskId \in TaskIds \cup {UnknownTaskId} : Nack(c, QueueOf(c), taskId)

SpecQueues == Init /\ [][NextQueues]_vars

\* The same client over a store whose operations can reject.  enqueue is the
\* only operation with store operations: its db.put, and the db.get and db.put
\* of each incrementStat.  No call catches the rejection: it reaches the caller.
StoreRejected == [kind |-> "error", class |-> "Error", message |-> "store rejected"]

\* enqueue(priority, payload) whose `await this.db.put(keyBuf, valueBuf)`
\* rejects: the sequence counter has been advanced, nothing is stored.
EnqueueRejected(c, name, priority, payload) ==
    /\ CanStart(c)
    /\ seqCounter[ProcOf(c)] < MaxTasks
    /\ seqCounter' = [seqCounter EXCEPT ![ProcOf(c)] = @ + 1]
    /\ hist' = Record(Event("enqueue", name, c, <<>>, StoreRejected))
    /\ UNCHANGED <<db, now, call, index, logging, codecVars, configVars, builderVars, cacheVars>>

\* The db.get or db.put of incrementStat / decrementStat rejects: the call
\* ends there with what it has written so far.
StatRejected(c) ==
    /\ call[c].op # "idle"
    /\ call[c].step \in {"get", "put"}
    /\ hist' = Record(Event(call[c].op, call[c].q, c, call[c].arg, StoreRejected))
    /\ call' = [call EXCEPT ![c] = Idle]
    /\ UNCHANGED <<db, seqCounter, now, index, logging, codecVars, configVars, builderVars, cacheVars>>

NextFail ==
    \/ Tick
    \/ \E name \in Queues, priority \in Priorities, payload \in Payloads :
           EnqueueCall(Client, name, priority, payload)
    \/ \E name \in Queues, priority \in Priorities, payload \in Payloads :
           EnqueueRejected(Client, name, priority, payload)
    \/ StatGet(Client)
    \/ StatPut(Client)
    \/ StatRejected(Client)
    \/ \E name \in Queues : Dequeue(Client, name)
    \/ \E name \in Queues, taskId \in TaskIds \cup {UnknownTaskId} : Ack(Client, name, taskId)
    \/ \E name \in Queues, taskId \in TaskIds \cup {UnknownTaskId} : Nack(Client, name, taskId)

SpecFail == Init /\ [][NextFail]_vars

\* Workers that keep calling dequeue, and calls that run to their return: a
\* pending store operation of a call is eventually performed.
Fairness ==
    \A c \in Callers :
        /\ WF_vars(StatGet(c))
        /\ WF_vars(StatPut(c))
        /\ WF_vars(\E name \in Queues : Dequeue(c, name))

SpecLive == Init /\ [][Next]_vars /\ Fairness

----------------------------------------------------------------------------
(* The key codec applied to pairs of keys. *)

CodecPriorities == {-256, -1, 0, 1, 256}
CodecReadyTs == {0, 256}
CodecSequences == {0, 47, 256}
CodecTaskIds == {<<48, Dash, 97>>, <<48, Dash, 97, 98>>}

CodecKeys ==
    [queueId : QueueNames, priority : CodecPriorities, readyTs : CodecReadyTs,
     sequence : CodecSequences, taskId : CodecTaskIds]

InitCodec ==
    /\ QueueInit
    /\ logging = FALSE
    /\ ck \in CodecKeys \X CodecKeys
    /\ cenc = <<>>
    /\ cdec = <<>>
    /\ cpc = "keys"
    /\ ConfigIdle
    /\ BuilderIdle
    /\ CacheIdle

CodecEncode ==
    /\ cpc = "keys"
    /\ cenc' = <<encodeQueueKey(ck[1]), encodeQueueKey(ck[2])>>
    /\ cpc' = "encoded"
    /\ UNCHANGED <<queueVars, ck, cdec, configVars, builderVars, cacheVars>>

CodecDecode ==
    /\ cpc = "encoded"
    /\ cdec' = <<decodeQueueKey(cenc[1]), decodeQueueKey(cenc[2])>>
    /\ cpc' = "decoded"
    /\ UNCHANGED <<queueVars, ck, cenc, configVars, builderVars, cacheVars>>

NextCodec == CodecEncode \/ CodecDecode

SpecCodec == InitCodec /\ [][NextCodec]_vars

----------------------------------------------------------------------------
(* The key decoder applied to truncated encodings. *)

TruncationKeys ==
    {k \in CodecKeys : k.queueId = QueueA /\ k.readyTs = 0 /\ k.priority \in {-1, 1}}

InitTruncate ==
    /\ QueueInit
    /\ logging = FALSE
    /\ ck \in {<<k, k>> : k \in TruncationKeys}
    /\ cenc = <<>>
    /\ cdec = <<>>
    /\ cpc = "keys"
    /\ ConfigIdle
    /\ BuilderIdle
    /\ CacheIdle

\* The encodings are cut to a proper prefix.
CodecTruncate ==
    /\ cpc = "encoded"
    /\ \E n \in 0..(Len(cenc[1]) - 1) :
           cenc' = <<SubSeq(cenc[1], 1, n), SubSeq(cenc[2], 1, n)>>
    /\ cpc' = "truncated"
    /\ UNCHANGED <<queueVars, ck, cdec, configVars, builderVars, cacheVars>>

CodecDecodeTruncated ==
    /\ cpc = "truncated"
    /\ cdec' = <<decodeQueueKey(cenc[1]), decodeQueueKey(cenc[2])>>
    /\ cpc' = "truncated-decoded"
    /\ UNCHANGED <<queueVars, ck, cenc, configVars, builderVars, cacheVars>>

NextTruncate ==
    \/ CodecEncode
    \/ CodecTruncate
    \/ CodecDecodeTruncated

SpecTruncate == InitTruncate /\ [][NextTruncate]_vars

\* Keys whose names hold characters of one, two and three UTF-8 bytes or a
\* lone surrogate, and whose numeric fields hold the byte '/' or end in a
\* byte that starts a longer UTF-8 sequence.
AcceptQueueIds == {QueueA, <<233>>, <<8364>>, <<55296>>}
AcceptTaskIds == {<<48, Dash, 97>>, <<48, Dash, 233>>}

AcceptKeys ==
    [queueId : AcceptQueueIds, priority : {-209, -1, Slash}, readyTs : {0, 195},
     sequence : {Slash, 226, 12079}, taskId : AcceptTaskIds]

InitAccept ==
    /\ QueueInit
    /\ logging = FALSE
    /\ ck \in {<<k, k>> : k \in AcceptKeys}
    /\ cenc = <<>>
    /\ cdec = <<>>
    /\ cpc = "keys"
    /\ ConfigIdle
    /\ BuilderIdle
    /\ CacheIdle

SpecAccept == InitAccept /\ [][NextCodec]_vars

----------------------------------------------------------------------------
(* Queues created with and without the optional numeric options. *)

OptionValues == {0, 1, 2, 3, 100, DefaultVisibilityTimeout}

ConfigOptions ==
    UNION {[fields -> OptionValues] : fields \in SUBSET {"visibilityTimeout", "maxRetries"}}

InitConfig ==
    /\ QueueInit
    /\ logging = FALSE
    /\ CodecIdle
    /\ copt \in [name : QueueNames, options : ConfigOptions]
    /\ cconf = NULL
    /\ BuilderIdle
    /\ CacheIdle

\* PriorityQueue.fromDatabase(db, name, options)
Construct ==
    /\ cconf = NULL
    /\ cconf' = fromDatabase(copt.name, copt.options)
    /\ UNCHANGED <<queueVars, codecVars, copt, builderVars, cacheVars>>

NextConfig == Construct

SpecConfig == InitConfig /\ [][NextConfig]_vars

----------------------------------------------------------------------------
(* ContextQueryBuilder: token-aware context assembly.  Text is a sequence of
   character codes. *)

ContextOutputFormat == {"toon", "json", "markdown"}

TruncationStrategy == {"tail_drop", "head_drop", "proportional"}

DefaultTokenBudget == 4096

CharsPerToken == 4

StrNewline == <<10>>
StrQuote == <<34>>
StrBackslash == <<92>>
StrOpenBracket == <<91>>
StrCloseBracket == <<93>>
StrHeading == <<35, 35, 32>>                 \* '## '
StrEllipsis == <<46, 46, 46>>                \* '...'
StrGet == <<71, 69, 84, 32>>                 \* 'GET '
StrEscapedNewline == <<92, 110>>             \* backslash, 'n'
StrIndent == <<32, 32>>
StrColonSpace == <<58, 32>>
StrComma == <<44>>
StrOpenBrace == <<123>>
StrCloseBrace == <<125>>

MaxSections == 2    \* sections added to one builder

BuilderNames == {<<65>>, <<66>>}             \* 'A', 'B'
BuilderPriorities == {1, 2, 3}
BuilderTexts == {<<120>>, <<121>>, <<122, 122, 122, 122, 122>>}   \* 'x', 'y', 'zzzzz'
BuilderPaths == {<<112>>}                    \* 'p'
BuilderBudgets == {0, 1, 2}

\* new ContextQueryBuilder(): the field initialisers
createContextBuilder ==
    [tokenBudget |-> DefaultTokenBudget, format |-> "toon", truncation |-> "tail_drop",
     sections |-> <<>>, currentSection |-> NULL]

\* Math.ceil(text.length / 4)
estimateTokens(text) == (Len(text) + CharsPerToken - 1) \div CharsPerToken

truncateText(text, maxTokens) ==
    LET maxChars == maxTokens * CharsPerToken
    IN  IF Len(text) <= maxChars THEN text ELSE SubSeq(text, 1, maxChars) \o StrEllipsis

withBudget(b, tokens) == [b EXCEPT !.tokenBudget = tokens]

setFormat(b, format) == [b EXCEPT !.format = format]

setTruncation(b, strategy) == [b EXCEPT !.truncation = strategy]

literal(b, name, priority, text) ==
    [b EXCEPT !.sections = Append(@, [name |-> name, priority |-> priority, content |-> text,
                                      tokenCount |-> estimateTokens(text)])]

section(b, name, priority) ==
    [b EXCEPT !.currentSection = [name |-> name, priority |-> priority, content |-> <<>>,
                                  tokenCount |-> 0]]

\* get(path) with an active section; without one it throws and changes nothing
get(b, path) ==
    [b EXCEPT !.currentSection.content = @ \o StrGet \o path \o StrNewline]

done(b) ==
    IF b.currentSection # NULL
    THEN [b EXCEPT !.sections = Append(@, [b.currentSection EXCEPT
                                              !.tokenCount = estimateTokens(b.currentSection.content)]),
                   !.currentSection = NULL]
    ELSE b

\* Array.prototype.sort with (a, b) => a.priority - b.priority: stable
RECURSIVE sortedSections(_)
sortedSections(sections) ==
    IF sections = <<>> THEN <<>>
    ELSE LET rest == sortedSections(SubSeq(sections, 1, Len(sections) - 1))
             s == sections[Len(sections)]
             before == {i \in 1..Len(rest) : rest[i].priority <= s.priority}
             n == Cardinality(before)
         IN  SubSeq(rest, 1, n) \o <<s>> \o SubSeq(rest, n + 1, Len(rest))

RECURSIVE totalTokens(_)
totalTokens(sections) ==
    IF sections = <<>> THEN 0 ELSE Head(sections).tokenCount + totalTokens(Tail(sections))

NoTruncation(sorted) ==
    [includedSections |-> sorted,
     truncatedSections |-> [i \in 1..Len(sorted) |->
                               [name |-> sorted[i].name, tokenCount |-> sorted[i].tokenCount,
                                truncated |-> FALSE]]]

\* the TAIL_DROP loop over the sorted sections
RECURSIVE TailDrop(_, _)
TailDrop(sorted, remainingBudget) ==
    IF sorted = <<>> THEN [includedSections |-> <<>>, truncatedSections |-> <<>>]
    ELSE LET s == Head(sorted)
         IN  IF s.tokenCount <= remainingBudget
             THEN LET r == TailDrop(Tail(sorted), remainingBudget - s.tokenCount)
                  IN  [includedSections |-> <<s>> \o r.includedSections,
                       truncatedSections |->
                           <<[name |-> s.name, tokenCount |-> s.tokenCount, truncated |-> FALSE]>>
                           \o r.truncatedSections]
             ELSE LET r == TailDrop(Tail(sorted), remainingBudget)
                  IN  [includedSections |-> r.includedSections,
                       truncatedSections |->
                           <<[name |-> s.name, tokenCount |-> 0, truncated |-> TRUE]>>
                           \o r.truncatedSections]

\* Math.floor(section.tokenCount * (tokenBudget / totalTokens)); over the
\* budgets and token counts enumerated here the floating-point product and the
\* exact quotient have the same floor.
allocatedTokens(s, tokenBudget, total) == (s.tokenCount * tokenBudget) \div total

Proportional(sorted, tokenBudget, total) ==
    [includedSections |-> [i \in 1..Len(sorted) |->
        [sorted[i] EXCEPT
            !.content = truncateText(@, allocatedTokens(sorted[i], tokenBudget, total)),
            !.tokenCount = allocatedTokens(sorted[i], tokenBudget, total)]],
     truncatedSections |-> [i \in 1..Len(sorted) |->
        [name |-> sorted[i].name,
         tokenCount |-> allocatedTokens(sorted[i], tokenBudget, total),
         truncated |-> allocatedTokens(sorted[i], tokenBudget, total) < sorted[i].tokenCount]]]

\* The truncation step of execute(): the sections kept and the report.
Truncate(b) ==
    LET sorted == sortedSections(b.sections)
        total == totalTokens(sorted)
    IN  IF total <= b.tokenBudget THEN NoTruncation(sorted)
        ELSE IF b.truncation = "tail_drop" THEN TailDrop(sorted, b.tokenBudget)
        ELSE IF b.truncation = "proportional" THEN Proportional(sorted, b.tokenBudget, total)
        ELSE [includedSections |-> <<>>, truncatedSections |-> <<>>]

\* Array.prototype.join
RECURSIVE Join(_, _)
Join(lines, sep) ==
    IF lines = <<>> THEN <<>>
    ELSE IF Len(lines) = 1 THEN lines[1]
    ELSE lines[1] \o sep \o Join(Tail(lines), sep)

RECURSIVE ToonLines(_)
ToonLines(sections) ==
    IF sections = <<>> THEN <<>>
    ELSE <<StrOpenBracket \o Head(sections).name \o StrCloseBracket, Head(sections).content, <<>> >>
         \o ToonLines(Tail(sections))

buildToonFormat(sections) == Join(ToonLines(sections), StrNewline)

RECURSIVE MarkdownLines(_)
MarkdownLines(sections) ==
    IF sections = <<>> THEN <<>>
    ELSE <<StrHeading \o Head(sections).name, <<>>, Head(sections).content, <<>> >>
         \o MarkdownLines(Tail(sections))

buildMarkdownFormat(sections) == Join(MarkdownLines(sections), StrNewline)

\* obj[name] = content on an object whose keys are kept in insertion order
\* (the names enumerated here are not integer-like): an existing key keeps its
\* place and takes the new content.
SetProperty(obj, name, content) ==
    IF \E i \in 1..Len(obj) : obj[i].name = name
    THEN [i \in 1..Len(obj) |-> IF obj[i].name = name
                                THEN [name |-> name, content |-> content] ELSE obj[i]]
    ELSE Append(obj, [name |-> name, content |-> content])

RECURSIVE JsonObject(_)
JsonObject(sections) ==
    IF sections = <<>> THEN <<>>
    ELSE LET s == sections[Len(sections)]
         IN  SetProperty(JsonObject(SubSeq(sections, 1, Len(sections) - 1)), s.name, s.content)

\* the escapes of JSON.stringify for the characters that occur
RECURSIVE JsonEscape(_)
JsonEscape(text) ==
    IF text = <<>> THEN <<>>
    ELSE (IF <<Head(text)>> = StrNewline THEN StrEscapedNewline
          ELSE IF <<Head(text)>> = StrQuote THEN StrBackslash \o StrQuote
          ELSE IF <<Head(text)>> = StrBackslash THEN StrBackslash \o StrBackslash
          ELSE <<Head(text)>>) \o JsonEscape(Tail(text))

JsonString(text) == StrQuote \o JsonEscape(text) \o StrQuote

\* JSON.stringify(obj, null, 2)
JsonStringify(obj) ==
    IF obj = <<>> THEN StrOpenBrace \o StrCloseBrace
    ELSE StrOpenBrace \o StrNewline
         \o Join([i \in 1..Len(obj) |->
                     StrIndent \o JsonString(obj[i].name) \o StrColonSpace
                     \o JsonString(obj[i].content)],
                 StrComma \o StrNewline)
         \o StrNewline \o StrCloseBrace

buildJsonFormat(sections) == JsonStringify(JsonObject(sections))

\* execute() on a builder with no pending section
execute(b) ==
    LET t == Truncate(b)
        text == IF b.format = "toon" THEN buildToonFormat(t.includedSections)
                ELSE IF b.format = "json" THEN buildJsonFormat(t.includedSections)
                ELSE buildMarkdownFormat(t.includedSections)
    IN  [text |-> text, tokenCount |-> estimateTokens(text), sections |-> t.truncatedSections]

AddedSections == Len(cb.sections) + (IF cb.currentSection # NULL THEN 1 ELSE 0)

InitBuilder ==
    /\ QueueInit
    /\ logging = FALSE
    /\ CodecIdle
    /\ ConfigIdle
    /\ BuilderIdle
    /\ CacheIdle

CreateContextBuilder ==
    /\ cb = NULL
    /\ cb' = createContextBuilder
    /\ UNCHANGED <<queueVars, codecVars, configVars, cres, cacheVars>>

Building == cb # NULL /\ cres = NULL

WithBudget ==
    /\ Building
    /\ \E tokens \in BuilderBudgets : cb' = withBudget(cb, tokens)
    /\ UNCHANGED <<queueVars, codecVars, configVars, cres, cacheVars>>

SetFormat ==
    /\ Building
    /\ \E format \in ContextOutputFormat : cb' = setFormat(cb, format)
    /\ UNCHANGED <<queueVars, codecVars, configVars, cres, cacheVars>>

SetTruncation ==
    /\ Building
    /\ \E strategy \in TruncationStrategy : cb' = setTruncation(cb, strategy)
    /\ UNCHANGED <<queueVars, codecVars, configVars, cres, cacheVars>>

Literal ==
    /\ Building
    /\ AddedSections < MaxSections
    /\ \E name \in BuilderNames, priority \in BuilderPriorities, text \in BuilderTexts :
           cb' = literal(cb, name, priority, text)
    /\ UNCHANGED <<queueVars, codecVars, configVars, cres, cacheVars>>

\* section() replaces a section that was started and not finished
Section ==
    /\ Building
    /\ Len(cb.sections) < MaxSections
    /\ \E name \in BuilderNames, priority \in BuilderPriorities :
           cb' = section(cb, name, priority)
    /\ UNCHANGED <<queueVars, codecVars, configVars, cres, cacheVars>>

SectionGet ==
    /\ Building
    /\ cb.currentSection # NULL
    /\ cb.currentSection.content = <<>>
    /\ \E path \in BuilderPaths : cb' = get(cb, path)
    /\ UNCHANGED <<queueVars, codecVars, configVars, cres, cacheVars>>

Done ==
    /\ Building
    /\ cb.currentSection # NULL
    /\ cb' = done(cb)
    /\ UNCHANGED <<queueVars, codecVars, configVars, cres, cacheVars>>

\* execute(): finishes the pending section, then builds the result
Execute ==
    /\ Building
    /\ cb' = done(cb)
    /\ cres' = execute(done(cb))
    /\ UNCHANGED <<queueVars, codecVars, configVars, cacheVars>>

NextBuilder ==
    \/ CreateContextBuilder
    \/ WithBudget
    \/ SetFormat
    \/ SetTruncation
    \/ Literal
    \/ Section
    \/ SectionGet
    \/ Done
    \/ Execute

SpecBuilder == InitBuilder /\ [][NextBuilder]_vars

----------------------------------------------------------------------------
(* SemanticCache: similarity lookup over the entries stored under the cache's
   prefix, with hit and miss counters.  Each call is awaited before the next. *)

MaxGets == 3        \* get() calls between two successful clear() calls

MsPerSecond == 1000

DefaultThreshold == 85                       \* 0.85, in hundredths

CacheKeys == {"Q1", "Q2"}
StoredEmbeddings == {<<1, 0>>, <<1, 1>>, <<1>>}
QueryEmbeddings == {<<1, 0>>, <<0, 1>>, <<0, 0>>}
Thresholds == {DefaultThreshold, 50}
TtlSeconds == {0, 1}

\* Date.now() during the life of the cache: a positive number of milliseconds
CacheClock == {1 + t * (MsPerSecond + 1) : t \in 0..MaxTime}

RECURSIVE SumOver(_, _, _)
SumOver(a, b, i) == IF i > Len(a) THEN 0 ELSE a[i] * b[i] + SumOver(a, b, i + 1)

\* cosineSimilarity for vectors of one length: the score dotProduct /
\* (sqrt(normA) * sqrt(normB)) is kept as the pair d, n standing for
\* d / sqrt(n), and 0 when a norm is 0.  The components here are not negative.
cosineSimilarity(a, b) ==
    LET dotProduct == SumOver(a, b, 1)
        normA == SumOver(a, a, 1)
        normB == SumOver(b, b, 1)
    IN  IF normA = 0 \/ normB = 0 THEN [d |-> 0, n |-> 1]
        ELSE [d |-> dotProduct, n |-> normA * normB]

ScoreOf(threshold) == [d |-> threshold, n |-> 100 * 100]

\* score > bestScore
ScoreGreater(s, t) == s.d * s.d * t.n > t.d * t.d * s.n

\* if (entry.ttl && entry.timestamp) { if (now > timestamp + ttl * 1000) ...
Expired(entry, clock) ==
    /\ entry.ttl # 0
    /\ entry.timestamp # 0
    /\ clock > entry.timestamp + entry.ttl * MsPerSecond

\* The keys under the prefix, in scan order.
RECURSIVE ScanKeys(_)
ScanKeys(keys) ==
    IF keys = {} THEN <<>>
    ELSE LET k == CHOOSE x \in keys : \A y \in keys : x = y \/ (x = "Q1")
         IN  <<k>> \o ScanKeys(keys \ {k})

\* new SemanticCache(db, cacheName) over a store that may hold entries
SemanticCache(store) == [store |-> store, hits |-> 0, misses |-> 0]

\* put: the entry written under prefix + key
put(c, key, embedding, ttlSeconds, clock) ==
    [c EXCEPT !.store = [k \in DOMAIN @ \cup {key} |->
        IF k = key THEN [key |-> key, embedding |-> embedding, timestamp |-> clock,
                         ttl |-> IF ttlSeconds > 0 THEN ttlSeconds ELSE 0]
        ELSE @[k]]]

delete(c, key) == [c EXCEPT !.store = [k \in DOMAIN @ \ {key} |-> @[k]]]

\* The scan loop of get() over the entries in order: the best match so far,
\* or "threw" when cosineSimilarity throws on vectors of different length.
RECURSIVE Scan(_, _, _, _, _, _)
Scan(c, keys, queryEmbedding, bestScore, bestMatch, clock) ==
    IF keys = <<>> THEN [threw |-> FALSE, bestMatch |-> bestMatch]
    ELSE LET entry == c.store[Head(keys)]
         IN  IF Expired(entry, clock)
             THEN Scan(c, Tail(keys), queryEmbedding, bestScore, bestMatch, clock)
             ELSE IF Len(queryEmbedding) # Len(entry.embedding)
             THEN [threw |-> TRUE, bestMatch |-> NULL]
             ELSE LET score == cosineSimilarity(queryEmbedding, entry.embedding)
                  IN  IF ScoreGreater(score, bestScore)
                      THEN Scan(c, Tail(keys), queryEmbedding, score,
                                [key |-> entry.key, score |-> score], clock)
                      ELSE Scan(c, Tail(keys), queryEmbedding, bestScore, bestMatch, clock)

\* The catch block of get(): counts a miss and returns null.  For
\* comparison, a catch block that returns null without counting.
getCatchUncounted(c) == [cache |-> c, ret |-> NULL]

getCatch(c) == [cache |-> [c EXCEPT !.misses = @ + 1], ret |-> NULL]

\* get(queryEmbedding, threshold); scanFails: the store's scan rejects
cacheGet(c, queryEmbedding, threshold, clock, scanFails) ==
    LET r == Scan(c, ScanKeys(DOMAIN c.store), queryEmbedding, ScoreOf(threshold), NULL, clock)
    IN  IF scanFails \/ r.threw THEN getCatch(c)
        ELSE IF r.bestMatch # NULL
        THEN [cache |-> [c EXCEPT !.hits = @ + 1], ret |-> r.bestMatch]
        ELSE [cache |-> [c EXCEPT !.misses = @ + 1], ret |-> NULL]

\* clear(); failAt = 0: nothing fails; failAt = n > 0: the scan (n = 1 with
\* nothing deleted) or the n-th delete fails, after n - 1 deletions
clear(c, failAt) ==
    LET keys == ScanKeys(DOMAIN c.store)
    IN  IF failAt = 0
        THEN [cache |-> [store |-> <<>>, hits |-> 0, misses |-> 0],
              ret |-> Len(keys), failed |-> FALSE]
        ELSE [cache |-> [c EXCEPT !.store =
                            [k \in DOMAIN @ \ {keys[i] : i \in 1..(failAt - 1)} |-> @[k]]],
              ret |-> failAt - 1, failed |-> TRUE]

\* stats(); seen: the entries the scan delivered before it failed, all of
\* them when it did not fail
cacheStats(c, clock, seen) ==
    [count |-> Cardinality({k \in seen : ~Expired(c.store[k], clock)}),
     hits |-> c.hits, misses |-> c.misses]

\* purgeExpired() without a failure
purgeExpired(c, clock) ==
    LET toDelete == {k \in DOMAIN c.store : Expired(c.store[k], clock)}
    IN  [cache |-> [c EXCEPT !.store = [k \in DOMAIN @ \ toDelete |-> @[k]]],
         ret |-> Cardinality(toDelete)]

\* The prefixes of the scan order: what a scan can have delivered.
ScanPrefixes(c) ==
    LET keys == ScanKeys(DOMAIN c.store)
    IN  {{keys[i] : i \in 1..n} : n \in 0..Len(keys)}

InitialEntries ==
    {<<>>} \cup {[k \in {key} |-> [key |-> key, embedding |-> e, timestamp |-> 1, ttl |-> 0]] :
                    key \in CacheKeys, e \in StoredEmbeddings}

InitCache ==
    /\ db = <<>>
    /\ seqCounter = [p \in Procs |-> 0]
    /\ now = 1
    /\ call = [c \in Callers |-> Idle]
    /\ index = {}
    /\ hist = <<>>
    /\ logging = FALSE
    /\ CodecIdle
    /\ ConfigIdle
    /\ BuilderIdle
    /\ sc \in {SemanticCache(s) : s \in InitialEntries}
    /\ scalls = 0
    /\ sret = NULL

CacheTick ==
    /\ \E t \in CacheClock : t > now /\ now' = t
    /\ UNCHANGED <<db, seqCounter, call, index, hist, logging, codecVars, configVars,
                   builderVars, cacheVars>>

CacheUnchanged ==
    UNCHANGED <<queueVars, codecVars, configVars, builderVars>>

CachePut ==
    /\ \E key \in CacheKeys, embedding \in StoredEmbeddings, ttlSeconds \in TtlSeconds :
           sc' = put(sc, key, embedding, ttlSeconds, now)
    /\ sret' = [kind |-> "put"]
    /\ UNCHANGED scalls
    /\ CacheUnchanged

CacheGet ==
    /\ scalls < MaxGets
    /\ \E queryEmbedding \in QueryEmbeddings, threshold \in Thresholds, scanFails \in BOOLEAN :
           LET r == cacheGet(sc, queryEmbedding, threshold, now, scanFails)
           IN  /\ sc' = r.cache
               /\ sret' = [kind |-> "get", value |-> r.ret]
    /\ scalls' = scalls + 1
    /\ CacheUnchanged

CacheDelete ==
    /\ \E key \in CacheKeys : sc' = delete(sc, key)
    /\ sret' = [kind |-> "delete"]
    /\ UNCHANGED scalls
    /\ CacheUnchanged

CacheClear ==
    /\ \E failAt \in 0..Max(Cardinality(DOMAIN sc.store), 1) :
           LET r == clear(sc, failAt)
           IN  /\ sc' = r.cache
               /\ sret' = [kind |-> "clear", value |-> r.ret, failed |-> r.failed]
               /\ scalls' = IF r.failed THEN scalls ELSE 0
    /\ CacheUnchanged

CacheStats ==
    /\ \E seen \in ScanPrefixes(sc) :
           sret' = [kind |-> "stats", value |-> cacheStats(sc, now, seen)]
    /\ UNCHANGED <<sc, scalls>>
    /\ CacheUnchanged

CachePurgeExpired ==
    /\ sc' = purgeExpired(sc, now).cache
    /\ sret' = [kind |-> "purgeExpired", value |-> purgeExpired(sc, now).ret]
    /\ UNCHANGED scalls
    /\ CacheUnchanged

NextCache ==
    \/ CacheTick
    \/ CachePut
    \/ CacheGet
    \/ CacheDelete
    \/ CacheClear
    \/ CacheStats
    \/ CachePurgeExpired

SpecCache == InitCache /\ [][NextCache]_vars

----------------------------------------------------------------------------
(* What the store holds for a task, and what the history says. *)

Last(h) == h[Len(h)]

Indices == 1..Len(hist)

\* The stored entries of the task of `key` in its queue's ordered index.
TaskEntries(d, key) ==
    {k \in DOMAIN d : /\ d[k].kind = "task"
                      /\ d[k].taskId = key.taskId
                      /\ IsPrefix(ScanPrefix(key.queueId), k)}

StoredTask(d, key) == d[CHOOSE k \in TaskEntries(d, key) : TRUE]

StoredState(d, key) ==
    LET entries == TaskEntries(d, key)
    IN  IF entries = {} THEN "absent" ELSE d[CHOOSE k \in entries : TRUE].state

StoredRetries(d, key) ==
    LET entries == TaskEntries(d, key)
    IN  IF entries = {} THEN 0 ELSE d[CHOOSE k \in entries : TRUE].retries

KeyOfTask(taskId) == CHOOSE key \in index : key.taskId = taskId

IsTaskReturn(event) == event.op = "dequeue" /\ event.ret # NULL

IsEnqueueReturn(event) == event.op = "enqueue"

\* The keys enqueue has built for task `taskId` of queue `name`.
KeysOf(name, taskId) == {key \in index : key.queueId = name /\ key.taskId = taskId}

\* The tasks of queue `name` that are Pending in store `d` and ready at time t.
Eligible(d, name, t) ==
    {key \in index : /\ key.queueId = name
                     /\ key.readyTs <= t
                     /\ StoredState(d, key) = PENDING}

StatNames ==
    {StatPending, StatClaimed, StatCompleted, StatDeadLettered,
     StatTotalEnqueued, StatTotalDequeued}

\* What store `d` holds for queue `name`: the entries under its scan prefix
\* and its counters.
QueueView(d, name) ==
    LET keys == QueueKeys(d, name) \cup ({StatKey(name, stat) : stat \in StatNames} \cap DOMAIN d)
    IN  [k \in keys |-> d[k]]

\* The two failures of ack and nack.
IsNotFound(ret) == ret.kind = "error" /\ ret.message = "Task not found"

IsInvalidState(ret) == ret.kind = "error" /\ ret.message = "Task not in claimed state"

\* (priority, readyTs, sequence, taskId) of k1 precedes that of k2.
TupleLess(k1, k2) ==
    \/ k1.priority < k2.priority
    \/ /\ k1.priority = k2.priority
       /\ \/ k1.readyTs < k2.readyTs
          \/ /\ k1.readyTs = k2.readyTs
             /\ \/ k1.sequence < k2.sequence
                \/ /\ k1.sequence = k2.sequence
                   /\ BytesLess(k1.taskId, k2.taskId)

----------------------------------------------------------------------------
(* Claims. *)

C2_DrainRun(w, name) ==
    /\ InFlight = {}
    /\ hist # <<>>
    /\ \A i \in Indices :
           /\ hist[i].who = w /\ hist[i].q = name
           /\ hist[i].op \in {"enqueue", "dequeue", "ack"}
    /\ \A i, j \in Indices : (i < j /\ hist[j].op = "enqueue") => hist[i].op = "enqueue"
    /\ \A i \in Indices :
           IsTaskReturn(hist[i]) =>
               /\ i < Len(hist)
               /\ hist[i + 1].op = "ack"
               /\ hist[i + 1].arg = hist[i].ret.taskId
               /\ hist[i + 1].ret = Void
    /\ \A i \in Indices : hist[i].op = "ack" => (i > 1 /\ IsTaskReturn(hist[i - 1]))
    /\ \A i \in Indices :
           hist[i].op = "dequeue" => (hist[i].ret = NULL <=> i = Len(hist))
    /\ Last(hist).op = "dequeue"

C2_DrainOrder ==
    \A w \in Callers, name \in Queues :
        C2_DrainRun(w, name) =>
            LET enq == SelectSeq(hist, IsEnqueueReturn)
                ret == SelectSeq(hist, IsTaskReturn)
                Pos(taskId) == CHOOSE n \in 1..Len(enq) : enq[n].arg = taskId
                Prio(taskId) == KeyOfTask(taskId).priority
            IN  /\ Len(ret) = Len(enq)
                /\ {ret[n].ret.taskId : n \in 1..Len(ret)} = {enq[n].arg : n \in 1..Len(enq)}
                /\ \A m, n \in 1..Len(ret) :
                       m < n =>
                           \/ Prio(ret[m].ret.taskId) < Prio(ret[n].ret.taskId)
                           \/ /\ Prio(ret[m].ret.taskId) = Prio(ret[n].ret.taskId)
                              /\ Pos(ret[m].ret.taskId) < Pos(ret[n].ret.taskId)

\* C4: in a run of one worker that enqueues one task and then repeats "dequeue
\* (the claim, the task being the only one of the queue and ready), nack of the
\* task", with maxRetries = N: each of the first N nacks succeeds and leaves
\* the task Pending with retries increased by one, and nack N+1 dead-letters
\* the task, after which stats().deadLettered is 1.
C4_RetryRun(w, name, taskId) ==
    /\ InFlight = {}
    /\ Len(hist) >= 3 /\ Len(hist) % 2 = 1
    /\ index = {KeyOfTask(taskId)}
    /\ \A i \in Indices : hist[i].who = w /\ hist[i].q = name
    /\ hist[1].op = "enqueue" /\ hist[1].arg = taskId
    /\ \A i \in Indices :
           /\ (i > 1 /\ i % 2 = 0) => hist[i].op = "dequeue"
           /\ (i > 1 /\ i % 2 = 1) => (hist[i].op = "nack" /\ hist[i].arg = taskId)

C4_NackBudget ==
    \A w \in Callers, name \in Queues, taskId \in TaskIds :
        C4_RetryRun(w, name, taskId) =>
            LET rounds == (Len(hist) - 1) \div 2
                N == Config(name).maxRetries
                key == KeyOfTask(taskId)
            IN  rounds <= N + 1 =>
                    /\ \A i \in Indices : hist[i].op = "nack" => hist[i].ret = Void
                    /\ rounds <= N =>
                           /\ StoredState(db, key) = PENDING
                           /\ StoredRetries(db, key) = rounds
                    /\ rounds = N + 1 =>
                           /\ StoredState(db, key) \in {"absent", DEAD_LETTERED}
                           /\ stats(db, name).deadLettered = 1

\* C5: for two distinct keys of one queue, the encoding of the first is below
\* the encoding of the second in byte order exactly when its (priority,
\* readyTs, sequence, taskId) precedes the other's; so every negative priority
\* encodes below every non-negative one.
C5_KeyOrder ==
    (/\ cpc \in {"encoded", "decoded"}
     /\ ck[1] # ck[2]
     /\ ck[1].queueId = ck[2].queueId)
    => (BytesLess(cenc[1], cenc[2]) <=> TupleLess(ck[1], ck[2]))

\* C5 witness: a key of negative priority encoded below a key of non-negative
\* priority whose other fields are smaller.
C5_Witness ==
    /\ cpc = "encoded"
    /\ ck[1].queueId = ck[2].queueId
    /\ ck[1].priority < 0 /\ ck[2].priority >= 0
    /\ ck[1].readyTs > ck[2].readyTs /\ ck[1].sequence > ck[2].sequence
    /\ BytesLess(cenc[1], cenc[2])

\* C6: decodeQueueKey(encodeQueueKey(k)) equals k in queueId, priority,
\* readyTs, sequence and taskId.
C6_RoundTrip ==
    cpc = "decoded" =>
        \A i \in {1, 2} :
            /\ cdec[i].kind = "key"
            /\ cdec[i].queueId = ck[i].queueId
            /\ cdec[i].priority = ck[i].priority
            /\ cdec[i].readyTs = ck[i].readyTs
            /\ cdec[i].sequence = ck[i].sequence
            /\ cdec[i].taskId = ck[i].taskId

\* C7: every task enqueue has stored has exactly one entry in the ordered
\* index of its queue, in state Pending or Claimed, and the ordered index
\* holds no entry of a Completed or DeadLettered task.  (No operation of the
\* code takes a task out of Pending.)
C7_OneIndexEntry ==
    /\ \A key \in index :
           /\ Cardinality(TaskEntries(db, key)) = 1
           /\ StoredState(db, key) \in {PENDING, CLAIMED}
    /\ \A name \in Queues : \A k \in QueueKeys(db, name) :
           db[k].state \notin {COMPLETED, DEAD_LETTERED}

\* C7 witness: two tasks of one queue with equal priority, ready time and
\* sequence number, enqueued by two processes, each with its own entry, and no
\* call in flight.
C7_Witness ==
    /\ InFlight = {}
    /\ \E k1, k2 \in index :
           /\ k1.taskId # k2.taskId
           /\ k1.queueId = k2.queueId /\ k1.priority = k2.priority
           /\ k1.readyTs = k2.readyTs /\ k1.sequence = k2.sequence
           /\ Cardinality(TaskEntries(db, k1)) = 1
           /\ Cardinality(TaskEntries(db, k2)) = 1

AllowedTransitions ==
    {<<PENDING, CLAIMED>>, <<CLAIMED, COMPLETED>>, <<CLAIMED, PENDING>>,
     <<CLAIMED, DEAD_LETTERED>>}

C9_Bounded(d) ==
    \A key \in index :
        LET retries == StoredRetries(d, key)
            maxRetries == Config(key.queueId).maxRetries
        IN  /\ retries <= maxRetries
            /\ retries >= maxRetries => StoredState(d, key) = DEAD_LETTERED

C10_SequenceNeverReused ==
    \A k1, k2 \in index :
        (k1 # k2 /\ k1.queueId = k2.queueId) => k1.sequence # k2.sequence

\* C11: an ack that returns normally leaves its task Completed with
\* completedAt; an ack that fails leaves the store as it was, fails with the
\* not-found error when no task has the id, and fails with the invalid-state
\* error when the task is Pending, Completed or DeadLettered.
C11_AckContract ==
    [][\/ hist' = hist
       \/ Last(hist').op # "ack"
       \/ LET e == Last(hist')
              keys == KeysOf(e.q, e.arg)
          IN  /\ e.ret = Void =>
                     \E key \in keys :
                         /\ StoredState(db', key) = COMPLETED
                         /\ "completedAt" \in DOMAIN StoredTask(db', key)
              /\ e.ret # Void =>
                     /\ db' = db
                     /\ keys = {} => IsNotFound(e.ret)
                     /\ \A key \in keys :
                            /\ StoredState(db, key) # CLAIMED
                            /\ IsInvalidState(e.ret)]_vars

\* C12: a nack that fails leaves the store as it was, fails with the not-found
\* error when no task has the id, and fails with the invalid-state error when
\* the task is Pending, Completed or DeadLettered; a nack that returns
\* normally has counted a retry of its task.
C12_NackContract ==
    [][\/ hist' = hist
       \/ Last(hist').op # "nack"
       \/ LET e == Last(hist')
              keys == KeysOf(e.q, e.arg)
          IN  /\ e.ret = Void =>
                     \E key \in keys :
                         /\ StoredState(db', key) \in {PENDING, DEAD_LETTERED}
                         /\ StoredRetries(db', key) >= 1
              /\ e.ret # Void =>
                     /\ db' = db
                     /\ keys = {} => IsNotFound(e.ret)
                     /\ \A key \in keys :
                            /\ StoredState(db, key) # CLAIMED
                            /\ IsInvalidState(e.ret)]_vars

\* C14: a dequeue returns null when its queue has no Pending task that is
\* ready, and then changes nothing in the store; when a Pending ready task
\* exists and no other call is in flight, it returns a task.
C14_NullIffNoneEligible ==
    [][\/ hist' = hist
       \/ Last(hist').op # "dequeue"
       \/ LET e == Last(hist')
              eligible == Eligible(db, e.q, now)
          IN  /\ eligible = {} => e.ret = NULL
              /\ e.ret = NULL => db' = db
              /\ (eligible # {} /\ InFlight = {}) => e.ret # NULL]_vars

\* C15: with no call in flight, stats() of a queue reports as pending,
\* claimed, completed and deadLettered the number of its tasks in each state,
\* as totalEnqueued the number of tasks enqueued and as totalDequeued the
\* number of dequeue calls that returned a task.
C15_CountersMatch ==
    InFlight = {} =>
        \A name \in Queues :
            LET st == stats(db, name)
                tasks == {key \in index : key.queueId = name}
                InState(state) == Cardinality({key \in tasks : StoredState(db, key) = state})
                Delivered(event) == IsTaskReturn(event) /\ event.q = name
            IN  /\ st.pending = InState(PENDING)
                /\ st.claimed = InState(CLAIMED)
                /\ st.completed = InState(COMPLETED)
                /\ st.deadLettered = InState(DEAD_LETTERED)
                /\ st.totalEnqueued = Cardinality(tasks)
                /\ st.totalDequeued = Len(SelectSeq(hist, Delivered))

\* C16: a step of a call on one queue leaves what the store holds for every
\* other queue (the entries under its scan prefix, its task records and its
\* counters) as it was.
C16_QueueIndependence ==
    [][\/ db' = db
       \/ LET acting == {call[c].q : c \in {x \in Callers : call'[x] # call[x] /\ call[x] # Idle}}
                             \cup {call'[c].q : c \in {x \in Callers : call'[x] # call[x]
                                                                     /\ call'[x] # Idle}}
          IN  \A name \in SharedStoreQueues :
                  QueueView(db', name) # QueueView(db, name) => name \in acting]_vars

\* C17: once enqueue has returned a task id, looking the id up yields a task,
\* and right after the return that task is Pending with retries 0 and the
\* priority and payload given.
C17_EnqueuedIsResolvable ==
    /\ \A key \in index :
           (\A c \in Callers : ~(call[c].op = "enqueue" /\ call[c].arg = key.taskId))
           => getTask(db, Config(key.queueId), key.taskId) # NULL
    /\ (hist # <<>> /\ Last(hist).op = "enqueue") =>
           LET e == Last(hist)
               task == getTask(db, Config(e.q), e.ret.taskId)
           IN  /\ task # NULL
               /\ task.state = PENDING
               /\ task.retries = 0
               /\ task.priority = KeyOfTask(e.ret.taskId).priority
               /\ task.payload \in Payloads

\* C18: in a run of one worker that enqueues the only task of a queue and
\* then calls dequeue twice without ack or nack, the first dequeue returns the
\* task (the claim); the second returns null or the same task with retries one
\* greater, and it returns null while the visibility timeout cannot have
\* elapsed since the claim.
C18_RedeliveryRun(w, name, taskId) ==
    /\ InFlight = {}
    /\ Len(hist) \in {2, 3}
    /\ index = KeysOf(name, taskId)
    /\ \A i \in Indices : hist[i].who = w /\ hist[i].q = name
    /\ hist[1].op = "enqueue" /\ hist[1].arg = taskId
    /\ \A i \in Indices : i > 1 => hist[i].op = "dequeue"

C18_TimeoutRedelivery ==
    \A w \in Callers, name \in Queues, taskId \in TaskIds :
        C18_RedeliveryRun(w, name, taskId) =>
            /\ hist[2].ret # NULL
            /\ hist[2].ret.taskId = taskId
            /\ Len(hist) = 3 =>
                   /\ \/ hist[3].ret = NULL
                      \/ /\ hist[3].ret.taskId = taskId
                         /\ hist[3].ret.retries = hist[2].ret.retries + 1
                   /\ now < hist[2].ret.claimedAt + Config(name).visibilityTimeout
                          => hist[3].ret = NULL

C21_TruncationRejected ==
    cpc = "truncated-decoded" => \A i \in {1, 2} : cdec[i].kind = "error"

\* C26: in a run of one worker that enqueues the only task of a queue, calls
\* dequeue (the claim) and nacks the task, the nack succeeds and leaves the
\* task with retries 1; the task is Pending if 1 < maxRetries and DeadLettered
\* otherwise; claimed is back to 0 and exactly one of pending and deadLettered
\* counts the task.
C26_NackRun(w, name, taskId) ==
    /\ InFlight = {}
    /\ Len(hist) = 3
    /\ index = KeysOf(name, taskId)
    /\ \A i \in Indices : hist[i].who = w /\ hist[i].q = name
    /\ hist[1].op = "enqueue" /\ hist[1].arg = taskId
    /\ hist[2].op = "dequeue"
    /\ hist[3].op = "nack" /\ hist[3].arg = taskId

C26_NackDecision ==
    \A w \in Callers, name \in Queues, taskId \in TaskIds :
        C26_NackRun(w, name, taskId) =>
            LET key == KeyOfTask(taskId)
                st == stats(db, name)
                N == Config(name).maxRetries
            IN  /\ hist[3].ret = Void
                /\ StoredRetries(db, key) = 1
                /\ st.claimed = 0
                /\ IF 1 < N
                   THEN /\ StoredState(db, key) = PENDING
                        /\ st.pending = 1 /\ st.deadLettered = 0
                   ELSE /\ StoredState(db, key) = DEAD_LETTERED
                        /\ st.pending = 0 /\ st.deadLettered = 1

\* C28: in every state, every ordered-index entry of a queue has a task-id
\* index entry for its task (an entry of the store outside the ordered
\* indexes and the counters that names the task), and every Pending or
\* Claimed task has exactly one ordered-index entry.
C28_IndexesConsistent ==
    \A key \in index :
        /\ StoredState(db, key) \in {PENDING, CLAIMED}
               => Cardinality(TaskEntries(db, key)) = 1
        /\ \A k \in TaskEntries(db, key) :
               \E t \in DOMAIN db :
                   /\ ~IsPrefix(StrQueueSlash, t)
                   /\ ~IsPrefix(StrStatsSlash, t)
                   /\ db[t].kind = "task-id"
                   /\ db[t].taskId = key.taskId
                   /\ db[t].key = k

\* Where a piece of text occurs in a longer one, and how a section's content
\* is written in each output format.
OccursAt(text, p, piece) ==
    /\ p + Len(piece) - 1 <= Len(text)
    /\ SubSeq(text, p, p + Len(piece) - 1) = piece

Occurs(text, piece) == \E p \in 1..Len(text) : OccursAt(text, p, piece)

Written(content, format) == IF format = "json" THEN JsonEscape(content) ELSE content

\* C23: execute emits the included sections in ascending priority number
\* whatever the order of the literal()/section() calls: for any two included
\* sections with different priorities and non-empty contents, the content of
\* the lower-numbered one occurs in result.text before an occurrence of the
\* content of the higher-numbered one.
C23_PriorityOrder ==
    cres # NULL =>
        LET included == Truncate(cb).includedSections
        IN  \A i, j \in 1..Len(included) :
                (/\ included[i].priority < included[j].priority
                 /\ included[i].content # <<>>
                 /\ included[j].content # <<>>)
                => \E p, q \in 1..Len(cres.text) :
                       /\ p < q
                       /\ OccursAt(cres.text, p, Written(included[i].content, cb.format))
                       /\ OccursAt(cres.text, q, Written(included[j].content, cb.format))

\* The same statement for the formats that write one block per section, and
\* for JSON when no two sections share a name.
C23_OrderWithDistinctNames ==
    (cres # NULL /\ \A i, j \in 1..Len(cb.sections) :
                        i # j => cb.sections[i].name # cb.sections[j].name)
    => C23_PriorityOrder

\* C24: with TAIL_DROP and any budget B, result.tokenCount <= B; sections are
\* admitted in priority order while their token count fits the remaining
\* budget; every section that does not fit is reported with truncated = TRUE
\* and its content is absent from result.text.
C24_WithinBudget ==
    (cres # NULL /\ cb.truncation = "tail_drop") => cres.tokenCount <= cb.tokenBudget

\* The budget left before the k-th section in priority order, under the rule
\* the claim states.
RECURSIVE RemainingBefore(_, _, _)
RemainingBefore(sorted, k, tokenBudget) ==
    IF k = 1 THEN tokenBudget
    ELSE LET r == RemainingBefore(sorted, k - 1, tokenBudget)
         IN  IF sorted[k - 1].tokenCount <= r THEN r - sorted[k - 1].tokenCount ELSE r

C24_DroppedReported ==
    (cres # NULL /\ cb.truncation = "tail_drop") =>
        LET sorted == sortedSections(cb.sections)
            included == Truncate(cb).includedSections
        IN  /\ Len(cres.sections) = Len(sorted)
            /\ \A k \in 1..Len(sorted) :
                   LET fits == sorted[k].tokenCount <= RemainingBefore(sorted, k, cb.tokenBudget)
                   IN  /\ cres.sections[k].name = sorted[k].name
                       /\ cres.sections[k].truncated = ~fits
                       /\ (~fits /\ sorted[k].content # <<>>
                           /\ \A i \in 1..Len(included) :
                                  ~Occurs(included[i].content, sorted[k].content))
                          => ~Occurs(cres.text, Written(sorted[k].content, cb.format))

C24_TailDropBudget == C24_WithinBudget /\ C24_DroppedReported

\* C25: every get() increments exactly one of the hit and miss counters, the
\* hit counter iff it returns an entry; so over awaited put/get/delete calls
\* stats().hits + stats().misses is the number of get calls since construction
\* or the last successful clear(), and a successful clear() leaves both
\* counters 0 and stats().count 0.
C25_CountersMatch ==
    /\ sc.hits + sc.misses = scalls
    /\ sret.kind = "stats" => sret.value.hits + sret.value.misses = scalls
    /\ (sret.kind = "clear" /\ ~sret.failed) =>
           /\ sc.hits = 0
           /\ sc.misses = 0
           /\ \A seen \in ScanPrefixes(sc) : cacheStats(sc, now, seen).count = 0

C25_GetCountsOne ==
    scalls' = scalls + 1 =>
        IF sret'.value # NULL
        THEN sc'.hits = sc.hits + 1 /\ sc'.misses = sc.misses
        ELSE sc'.hits = sc.hits /\ sc'.misses = sc.misses + 1

C25_Accounting == [][C25_CountersMatch' /\ C25_GetCountsOne]_vars

\* stats() after gets that hit and gets that missed.
C25_Witness ==
    /\ sret.kind = "stats"
    /\ sret.value.hits >= 1
    /\ sret.value.misses >= 1
    /\ sret.value.count >= 1

\* C32: when the store rejects an operation at any step of a call, the error
\* reaches the caller and the queue is as before the call: no task entry
\* without its counter updates and no counter update without its task entry.
\* (Calls are made one at a time here, so before each call the counters
\* totalEnqueued and pending equal the number of stored entries.)
C32_AllOrNothing ==
    (InFlight = {} /\ hist # <<>> /\ Last(hist).ret = StoreRejected) =>
        \A name \in Queues :
            /\ stats(db, name).totalEnqueued = Cardinality(QueueKeys(db, name))
            /\ stats(db, name).pending = Cardinality(QueueKeys(db, name))

\* C33: for any interleaving of concurrent enqueue calls on one queue,
\* totalEnqueued and pending each end higher by the number of calls, and the
\* read-then-write of a counter is never interleaved with another update of
\* the same counter.
C33_NoLostUpdates ==
    /\ InFlight = {} =>
           \A name \in Queues :
               LET enqueued == Cardinality({key \in index : key.queueId = name})
               IN  /\ stats(db, name).totalEnqueued = enqueued
                   /\ stats(db, name).pending = enqueued
    /\ \A c1, c2 \in InFlight :
           (/\ c1 # c2
            /\ call[c1].step = "put"
            /\ call[c2].step = "put"
            /\ call[c1].q = call[c2].q)
           => Head(call[c1].todo).stat # Head(call[c2].todo).stat

\* C34: in every state with no call in flight, pending + claimed + completed
\* + deadLettered = totalEnqueued and totalDequeued >= claimed + completed +
\* deadLettered; totalEnqueued and totalDequeued never decrease.
C34_Conserved(d) ==
    \A name \in Queues :
        LET st == stats(d, name)
        IN  /\ st.pending + st.claimed + st.completed + st.deadLettered = st.totalEnqueued
            /\ st.totalDequeued >= st.claimed + st.completed + st.deadLettered

C34_CounterConservation ==
    [][\/ UNCHANGED db
       \/ /\ \A name \in Queues :
                 /\ stats(db', name).totalEnqueued >= stats(db, name).totalEnqueued
                 /\ stats(db', name).totalDequeued >= stats(db, name).totalDequeued
          /\ InFlight' = {} => C34_Conserved(db')]_vars

C36_KeySpacesDisjoint ==
    /\ \A key \in index, q1 \in SharedStoreQueues :
           (q1 # key.queueId /\ encodeQueueKey(key) \in DOMAIN db)
           => ~IsPrefix(ScanPrefix(q1), encodeQueueKey(key))
    /\ \A q1, q2 \in SharedStoreQueues, s1, s2 \in StatNames :
           q1 # q2 => StatKey(q1, s1) # StatKey(q2, s2)

\* C38: an option supplied to fromDatabase / fromClient / the constructor is
\* the queue's effective value, 0 included, and the budget nack compares
\* retries with is the supplied maxRetries; only omitted options take the
\* defaults.
C38_SuppliedOptionsKept ==
    cconf # NULL =>
        /\ \A f \in DOMAIN copt.options : cconf[f] = copt.options[f]
        /\ "maxRetries" \in DOMAIN copt.options => nackBudget(cconf) = copt.options.maxRetries
        /\ "visibilityTimeout" \notin DOMAIN copt.options
               => cconf.visibilityTimeout = DefaultVisibilityTimeout
        /\ "maxRetries" \notin DOMAIN copt.options => cconf.maxRetries = DefaultMaxRetries

\* C37: when workers keep calling dequeue and ack what they receive, a Pending
\* task whose readyTs has passed is eventually returned by a dequeue and
\* eventually Completed.  Stated for some task: once a task is Pending and
\* eligible, eventually a dequeue has returned a task and a task is Completed.
C37_NoStarvation ==
    (\E key \in index : StoredState(db, key) = PENDING /\ key.readyTs <= now)
    ~> (/\ \E i \in Indices : hist[i].op = "dequeue" /\ hist[i].ret # NULL
        /\ \E key \in index : StoredState(db, key) = COMPLETED)

\* A string of UTF-16 code units without an unpaired surrogate.
WellFormed(str) == \A i \in 1..Len(str) : str[i] < 55296 \/ str[i] > 57343

NoSlash(str) == \A i \in 1..Len(str) : str[i] # Slash

C39_Recovered(i) ==
    /\ cdec[i].kind = "key"
    /\ cdec[i].queueId = ck[i].queueId
    /\ cdec[i].taskId = ck[i].taskId

\* C39: decodeQueueKey accepts every output of encodeQueueKey: for every key
\* whose queueId and taskId contain no '/', decoding the encoded bytes does
\* not throw and returns the original queueId and taskId, whatever bytes
\* ('/' included) occur in the priority, readyTs and sequence fields.
C39_EveryEncodingAccepted ==
    cpc = "decoded" =>
        \A i \in {1, 2} :
            (NoSlash(ck[i].queueId) /\ NoSlash(ck[i].taskId)) => C39_Recovered(i)

\* C39 as it holds: the same for keys whose queueId and taskId also hold no
\* unpaired surrogate.
C39_WellFormedAccepted ==
    cpc = "decoded" =>
        \A i \in {1, 2} :
            (/\ NoSlash(ck[i].queueId) /\ NoSlash(ck[i].taskId)
             /\ WellFormed(ck[i].queueId) /\ WellFormed(ck[i].taskId))
            => C39_Recovered(i)

\* C39 witness: a decoded key with a three-byte character in its name and a
\* '/' byte in each numeric field.
C39_Witness ==
    /\ cpc = "decoded"
    /\ ck[1].queueId = <<8364>>
    /\ \E n \in 1..U64Bytes : encodeI64BE(ck[1].priority)[n] = Slash
    /\ \E n \in 1..U64Bytes : encodeU64BE(ck[1].sequence)[n] = Slash
    /\ Len(Split(Utf8ToString(cenc[1]), Slash)) > 6
    /\ C39_Recovered(1)

====
